---- MODULE Spec2Model ----
(***************************************************************************)
(* Terraform provider for NATS JetStream: the client of internal/nats, the *)
(* stream and consumer resources, the stream data source, the provider's   *)
(* Configure, the schema validators and the string-enum mappings.          *)
(***************************************************************************)
EXTENDS Integers, Sequences, FiniteSets, TLC

(***************************************************************************)
(* int64 values.  TLC's integers are 32 bits wide, and the schema holds    *)
(* the default 120000000000, so an int64 v is kept as hi * 10^9 + lo with  *)
(* 0 <= lo < 10^9 (hi is the floor of v / 10^9).                           *)
(***************************************************************************)
Giga == 1000 * 1000 * 1000

I64Parts(h, l) == [hi |-> h, lo |-> l]

\* A small integer as an int64.
I64(n) == I64Parts(n \div Giga, n % Giga)

I64Leq(a, b) == a.hi < b.hi \/ (a.hi = b.hi /\ a.lo <= b.lo)

(***************************************************************************)
(* internal/nats/types.go: the string-enum mappings.  The constants of     *)
(* nats.go are written by name; the zero value of each enum type is its    *)
(* first (iota = 0) constant, and the zero value of string is "".          *)
(***************************************************************************)
Range(f) == {f[k] : k \in DOMAIN f}

invertMap(in) == [v \in Range(in) |-> CHOOSE k \in DOMAIN in : in[k] = v]

\* mapFn(m) is func(a) { return m[a] }: a missing key yields B's zero value.
mapFn(m, zero, a) == IF a \in DOMAIN m THEN m[a] ELSE zero

storageTypeClash == ("file" :> "FileStorage") @@ ("memory" :> "FileStorage")

storageType == ("file" :> "FileStorage") @@ ("memory" :> "MemoryStorage")

invertedStorageType == invertMap(storageType)

ToStorageType(s) == mapFn(storageType, "FileStorage", s)

FromStorageType(c) == mapFn(invertedStorageType, "", c)

discardPolicy == ("old" :> "DiscardOld") @@ ("new" :> "DiscardNew")

invertedDiscardPolicy == invertMap(discardPolicy)

ToDiscardPolicy(s) == mapFn(discardPolicy, "DiscardOld", s)

FromDiscardPolicy(c) == mapFn(invertedDiscardPolicy, "", c)

retentionPolicy ==
    ("limits" :> "LimitsPolicy") @@ ("interest" :> "InterestPolicy")
        @@ ("work" :> "WorkQueuePolicy")

invertedRetentionPolicy == invertMap(retentionPolicy)

ToRetentionPolicy(s) == mapFn(retentionPolicy, "LimitsPolicy", s)

FromRetentionPolicy(c) == mapFn(invertedRetentionPolicy, "", c)

ackPolicy ==
    ("none" :> "AckNonePolicy") @@ ("all" :> "AckAllPolicy")
        @@ ("explicit" :> "AckExplicitPolicy")

invertedAckPolicy == invertMap(ackPolicy)

ToAckPolicy(s) == mapFn(ackPolicy, "AckNonePolicy", s)

FromAckPolicy(c) == mapFn(invertedAckPolicy, "", c)

deliverPolicy ==
    ("all" :> "DeliverAllPolicy") @@ ("new" :> "DeliverNewPolicy")
        @@ ("last" :> "DeliverLastPolicy")

invertedDeliverPolicy == invertMap(deliverPolicy)

ToDeliverPolicy(s) == mapFn(deliverPolicy, "DeliverAllPolicy", s)

FromDeliverPolicy(c) == mapFn(invertedDeliverPolicy, "", c)

(***************************************************************************)
(* The strings each schema allows (stringvalidator.OneOf) for the five     *)
(* enum attributes.                                                        *)
(***************************************************************************)
StorageStrings == {"file", "memory"}

RetentionStrings == {"limits", "interest", "work"}

DiscardStrings == {"old", "new"}

DeliverPolicyStrings == {"all", "new", "last"}

AckPolicyStrings == {"none", "all", "explicit"}

ModeStrings == {"push", "pull"}

(***************************************************************************)
(* Values that may be absent: <<>> is null / nil, <<v>> holds v.           *)
(***************************************************************************)
Null == <<>>

Some(v) == <<v>>

\* (types.String).ValueString: "" for a null string.
ValueString(v) == IF v = Null THEN "" ELSE v[1]

\* types.StringValue: a known string.
StringValue(s) == Some(s)

(***************************************************************************)
(* internal/provider/utils.go                                              *)
(***************************************************************************)
\* The element conversion fn of a convertSlice call, applied to elem.
fnOf(fn, elem) ==
    CASE fn = "ValueString" -> ValueString(elem)
      [] fn = "StringValue" -> StringValue(elem)

\* A Go slice: nil or not, and its elements.  A []types.String that is not
\* nil is a list of the plan or state, with these elements.
Slice(elems) == [nil |-> FALSE, elems |-> elems]

\* out := make([]D, 0, len(in)); for each elem: out = append(out, fn(elem)).
\* make never returns nil, whatever in is.
convertSlice(in, fn) ==
    [nil |-> FALSE, elems |-> [i \in 1..Len(in.elems) |-> fnOf(fn, in.elems[i])]]

\* int64validator of terraform-plugin-framework-validators.
OneOf(vals, v) == v \in vals

AtLeast(min, v) == I64Leq(min, v)

Between(min, max, v) == I64Leq(min, v) /\ I64Leq(v, max)

\* A slip: 0 let through.
infinityOrNonNegativeInt64Validator(v) == OneOf({I64(-1)}, v) \/ AtLeast(I64(0), v)

infinityOrPositiveInt64Validator(v) == OneOf({I64(-1)}, v) \/ AtLeast(I64(1), v)

(***************************************************************************)
(* Integer conversions of toStreamConfig / fromStreamInfo.                 *)
(***************************************************************************)
I64Add(a, b) ==
    I64Parts(a.hi + b.hi + ((a.lo + b.lo) \div Giga), (a.lo + b.lo) % Giga)

I64Neg(a) == IF a.lo = 0 THEN I64Parts(-a.hi, 0) ELSE I64Parts(-a.hi - 1, Giga - a.lo)

\* 2^31 and 2^32.
Two31 == I64Parts(2, 147483648)

Two32 == I64Parts(4, 294967296)

\* int32(v): the low 32 bits of v, read as a signed number.
RECURSIVE Int32Of(_)
Int32Of(v) ==
    IF I64Leq(Two31, v) THEN Int32Of(I64Add(v, I64Neg(Two32)))
    ELSE IF ~I64Leq(I64Neg(Two31), v) THEN Int32Of(I64Add(v, Two32))
    ELSE v

\* int(v) and int64(int): Go's int is 64 bits wide on the 64-bit builds
\* modelled here, so every int64 value is kept.
IntOf(v) == v

(***************************************************************************)
(* internal/provider/stream_resource.go: the model and its conversions.    *)
(***************************************************************************)
toStreamConfig(data) ==
    [Name              |-> data.name,
     Subjects          |-> convertSlice(data.subjects, "ValueString"),
     Storage           |-> ToStorageType(data.storage),
     Replicas          |-> IntOf(data.num_replicas),
     Retention         |-> ToRetentionPolicy(data.retention),
     Discard           |-> ToDiscardPolicy(data.discard),
     MaxMsgs           |-> data.max_msgs,
     MaxConsumers      |-> IntOf(data.max_consumers),
     MaxBytes          |-> data.max_bytes,
     MaxMsgsPerSubject |-> data.max_msgs_per_subject,
     MaxMsgSize        |-> Int32Of(data.max_msg_size),
     MaxAge            |-> data.max_age,
     Duplicates        |-> data.duplicate_window,
     AllowDirect       |-> data.allow_direct]

fromStreamInfo(streamInfo) ==
    [name                 |-> streamInfo.Config.Name,
     subjects             |-> convertSlice(streamInfo.Config.Subjects, "StringValue"),
     storage              |-> FromStorageType(streamInfo.Config.Storage),
     num_replicas         |-> streamInfo.Config.Replicas,
     retention            |-> FromRetentionPolicy(streamInfo.Config.Retention),
     discard              |-> FromDiscardPolicy(streamInfo.Config.Discard),
     max_msgs             |-> streamInfo.Config.MaxMsgs,
     max_consumers        |-> streamInfo.Config.MaxConsumers,
     max_bytes            |-> streamInfo.Config.MaxBytes,
     max_msgs_per_subject |-> streamInfo.Config.MaxMsgsPerSubject,
     max_msg_size         |-> streamInfo.Config.MaxMsgSize,
     max_age              |-> streamInfo.Config.MaxAge,
     duplicate_window     |-> streamInfo.Config.Duplicates,
     allow_direct         |-> streamInfo.Config.AllowDirect]

(***************************************************************************)
(* internal/provider/consumer_resource.go: the model and its conversions.  *)
(***************************************************************************)
\* A slip: only the pull half of the check.
validateModePullOnly(data) ==
    IF data.mode = "pull" /\ data.deliver_subject # ""
    THEN "Attribute 'deliver_subject' must not be set if 'mode' is 'pull'"
    ELSE ""

\* The error of validateMode, "" for nil.
validateMode(data) ==
    IF data.mode = "pull" /\ data.deliver_subject # ""
    THEN "Attribute 'deliver_subject' must not be set if 'mode' is 'pull'"
    ELSE IF data.mode = "push" /\ data.deliver_subject = ""
    THEN "Attribute 'deliver_subject' must be set if 'mode' is 'push'"
    ELSE ""

\* (nats.ConsumerConfig, error): cfg is Null when err is not "".
toConsumerConfig(data) ==
    IF validateMode(data) # ""
    THEN [cfg |-> Null, err |-> validateMode(data)]
    ELSE [cfg |-> Some([Name           |-> data.name,
                        Durable        |-> data.name,
                        DeliverPolicy  |-> ToDeliverPolicy(data.deliver_policy),
                        AckPolicy      |-> ToAckPolicy(data.ack_policy),
                        FilterSubjects |-> convertSlice(data.filter_subjects, "ValueString"),
                        DeliverSubject |-> data.deliver_subject,
                        DeliverGroup   |-> data.deliver_group]),
          err |-> ""]

fromConsumerInfo(consumerInfo) ==
    [stream_name     |-> consumerInfo.Stream,
     name            |-> consumerInfo.Name,
     mode            |-> IF consumerInfo.Config.DeliverSubject # "" THEN "push" ELSE "pull",
     deliver_policy  |-> FromDeliverPolicy(consumerInfo.Config.DeliverPolicy),
     ack_policy      |-> FromAckPolicy(consumerInfo.Config.AckPolicy),
     filter_subjects |-> convertSlice(consumerInfo.Config.FilterSubjects, "StringValue"),
     deliver_subject |-> consumerInfo.Config.DeliverSubject,
     deliver_group   |-> consumerInfo.Config.DeliverGroup]

(***************************************************************************)
(* The plans Terraform hands to the handlers.  Every plan satisfies the    *)
(* schema's validators; attributes left out of a configuration hold the    *)
(* schema's defaults.                                                      *)
(***************************************************************************)
MaxConns == 3

StreamNames == {"orders", "events"}

ConsumerNames == {"new_order_consumer", "audit"}

\* A stream plan holding the defaults of streamResource.Schema.
DefaultStream(n) ==
    [name                 |-> n,
     subjects             |-> Slice(<<Some("order.*")>>),
     storage              |-> "file",
     num_replicas         |-> I64(1),
     retention            |-> "limits",
     discard              |-> "old",
     max_msgs             |-> I64(-1),
     max_consumers        |-> I64(-1),
     max_bytes            |-> I64(-1),
     max_msgs_per_subject |-> I64(-1),
     max_msg_size         |-> I64(-1),
     max_age              |-> I64(0),
     duplicate_window     |-> I64Parts(120, 0),
     allow_direct         |-> TRUE]

StreamPlans ==
    {DefaultStream(n) : n \in StreamNames}
        \cup {[DefaultStream(n) EXCEPT !.discard = "new", !.retention = "interest",
                                       !.storage = "memory", !.subjects = Slice(<<>>),
                                       !.max_msgs = I64(1000), !.allow_direct = FALSE]
                : n \in StreamNames}

\* A consumer plan holding the defaults of consumerResource.Schema.
DefaultConsumer(n, m, ds, dg) ==
    [stream_name     |-> "orders",
     name            |-> n,
     mode            |-> m,
     deliver_policy  |-> "all",
     ack_policy      |-> "none",
     filter_subjects |-> Slice(<<>>),
     deliver_subject |-> ds,
     deliver_group   |-> dg]

ConsumerPlans ==
    {DefaultConsumer(n, m, ds, "") :
        n \in ConsumerNames, m \in ModeStrings, ds \in {"", "deliver.orders"}}
        \cup {[DefaultConsumer(n, m, ds, "workers")
                  EXCEPT !.ack_policy = "explicit", !.deliver_policy = "new",
                         !.filter_subjects = Slice(<<Some("orders.created")>>)] :
                n \in ConsumerNames, m \in ModeStrings, ds \in {"", "deliver.orders"}}
        \cup {[DefaultConsumer("audit", m, "", "") EXCEPT !.stream_name = "events"] :
                m \in ModeStrings}

ConsumerKeys == {<<s, c>> : s \in StreamNames, c \in ConsumerNames}

(***************************************************************************)
(* State.                                                                  *)
(***************************************************************************)
VARIABLES
    pc,            \* where the handler invocation is: "done" (none running),
                   \* or inside the client method: "connect", "jetstream",
                   \* "request", "defer", "returned"
    handler,       \* the handler invoked last ("none" before the first)
    req,           \* its request: [plan, state]
    resp,          \* its response: [state, diags]
    call,          \* the client call it made: [method, stream, consumer, cfg]
    calls,         \* the client methods it has called, in order
    ret,           \* what the client method returned: [err, info]
    tfStream,      \* Terraform's state of the nats_stream resource
    tfConsumer,    \* Terraform's state of the nats_consumer resource
    dsStream,      \* the state of the nats_stream data source
    server,        \* the JetStream server: [streams, consumers]
    serverAtStart, \* the server when the handler was invoked
    connSeq,       \* connections opened so far by nats.Connect
    open,          \* connections that are open
    closed,        \* connections that were closed
    cur,           \* nc of the client method running (0: none)
    reqs,          \* JetStream requests made on nc
    provSt,        \* the provider: its configuration, NATS_URL, and the client
                   \* Configure made and handed on
    enumSt,        \* strings taken through the enum mappings and back
    valSt,         \* an int64 attribute value before the schema's validator
    impSt,         \* a consumer import: the ID, and the response's state
    rtSt           \* a model taken to the configuration sent and back from the
                   \* info returned

mainVars ==
    <<pc, handler, req, resp, call, calls, ret, tfStream, tfConsumer, dsStream,
      server, serverAtStart, connSeq, open, closed, cur, reqs>>

pureVars == <<provSt, enumSt, valSt, impSt, rtSt>>

vars == <<mainVars, pureVars>>

clientVars == <<ret, server, connSeq, open, closed, cur, reqs>>

tfVars == <<tfStream, tfConsumer, dsStream>>

NoCall == [method |-> "", stream |-> "", consumer |-> "", cfg |-> Null]

NoRet == [err |-> "", info |-> Null]

Idle == [phase |-> "idle"]

InitMain ==
    /\ pc = "done"
    /\ handler = "none"
    /\ req = [plan |-> Null, state |-> Null]
    /\ resp = [state |-> Null, diags |-> <<>>]
    /\ call = NoCall
    /\ calls = <<>>
    /\ ret = NoRet
    /\ tfStream = Null
    /\ tfConsumer = Null
    /\ dsStream = Null
    /\ server = [streams |-> [n \in StreamNames |-> Null],
                 consumers |-> [k \in ConsumerKeys |-> Null]]
    /\ serverAtStart = server
    /\ connSeq = 0
    /\ open = {}
    /\ closed = {}
    /\ cur = 0
    /\ reqs = 0

Init ==
    /\ InitMain
    /\ provSt = Idle
    /\ enumSt = Idle
    /\ valSt = Idle
    /\ impSt = Idle
    /\ rtSt = Idle

(***************************************************************************)
(* Diagnostics and the response's state.                                   *)
(***************************************************************************)
AddError(r, summary) ==
    [r EXCEPT !.diags = Append(@, [severity |-> "error", summary |-> summary])]

AddWarning(r, summary) ==
    [r EXCEPT !.diags = Append(@, [severity |-> "warning", summary |-> summary])]

HasError(r) == \E i \in 1..Len(r.diags) : r.diags[i].severity = "error"

HasDiag(r, sev, summary) ==
    \E i \in 1..Len(r.diags) : r.diags[i] = [severity |-> sev, summary |-> summary]

\* resp.State.Set(ctx, &data)
StateSet(r, data) == [r EXCEPT !.state = Some(data)]

\* resp.State.RemoveResource(ctx)
RemoveResource(r) == [r EXCEPT !.state = Null]

(***************************************************************************)
(* The JetStream server behind the nats.go library, as the client sees it: *)
(* it keeps the configuration it was sent under the stream's / consumer's  *)
(* name and returns it in the info; a request on something that does not   *)
(* exist fails with ErrStreamNotFound / ErrConsumerNotFound; any request   *)
(* may fail for another reason (timeout, refused configuration).           *)
(***************************************************************************)
StreamInfoOf(cfg) == [Config |-> cfg]

ConsumerInfoOf(stream, cfg) == [Stream |-> stream, Name |-> cfg.Name, Config |-> cfg]

\* What the server answers to the request of call c, and what it becomes.
jsOk(c, srv) ==
    LET key == <<c.stream, c.consumer>>
        cfgKey == <<c.stream, c.cfg[1].Name>> IN
    CASE c.method = "GetStream" ->
            [err |-> "", info |-> Some(StreamInfoOf(srv.streams[c.stream][1])), srv |-> srv]
      [] c.method \in {"CreateStream", "UpdateStream"} ->
            [err |-> "", info |-> Some(StreamInfoOf(c.cfg[1])),
             srv |-> [srv EXCEPT !.streams[c.stream] = c.cfg]]
      [] c.method = "DeleteStream" ->
            [err |-> "", info |-> Null,
             srv |-> [streams |-> [srv.streams EXCEPT ![c.stream] = Null],
                      consumers |-> [k \in ConsumerKeys |->
                                        IF k[1] = c.stream THEN Null ELSE srv.consumers[k]]]]
      [] c.method = "GetConsumer" ->
            [err |-> "", info |-> Some(ConsumerInfoOf(c.stream, srv.consumers[key][1])),
             srv |-> srv]
      [] c.method \in {"CreateConsumer", "UpdateConsumer"} ->
            [err |-> "", info |-> Some(ConsumerInfoOf(c.stream, c.cfg[1])),
             srv |-> [srv EXCEPT !.consumers[cfgKey] = c.cfg]]
      [] c.method = "DeleteConsumer" ->
            [err |-> "", info |-> Null, srv |-> [srv EXCEPT !.consumers[key] = Null]]

jsFail(e, srv) == [err |-> e, info |-> Null, srv |-> srv]

jsOutcomes(c, srv) ==
    LET onStream == c.method \in {"GetStream", "CreateStream", "UpdateStream", "DeleteStream"}
        noStream == srv.streams[c.stream] = Null
        cname == IF c.cfg = Null THEN c.consumer ELSE c.cfg[1].Name
        noConsumer == srv.consumers[<<c.stream, cname>>] = Null IN
    {jsFail("other", srv)} \cup
    (IF c.method = "CreateStream" THEN {jsOk(c, srv)}
     ELSE IF noStream THEN {jsFail("ErrStreamNotFound", srv)}
     ELSE IF onStream \/ c.method = "CreateConsumer" THEN {jsOk(c, srv)}
     ELSE IF noConsumer THEN {jsFail("ErrConsumerNotFound", srv)}
     ELSE {jsOk(c, srv)})

(***************************************************************************)
(* internal/nats/types.go: the client.  Each method is                     *)
(*   nc, err := nats.Connect(c.url);  defer nc.Close()                     *)
(*   js, err := nc.JetStream();  one request on js;  return                *)
(***************************************************************************)
\* The error a method returns for a failed request.
requestErr(method, e) ==
    IF method \in {"GetStream", "GetConsumer"}
          /\ e \in {"ErrStreamNotFound", "ErrConsumerNotFound"}
    THEN "ErrNotFound"
    ELSE CASE method = "GetStream"      -> "failed to retrieve stream info"
           [] method = "CreateStream"   -> "failed to create stream"
           [] method = "UpdateStream"   -> "failed to update stream"
           [] method = "DeleteStream"   -> "failed to delete stream"
           [] method = "GetConsumer"    -> "failed to retrieve consumer info"
           [] method = "CreateConsumer" -> "failed to create consumer"
           [] method = "UpdateConsumer" -> "failed to update consumer"
           [] method = "DeleteConsumer" -> "failed to delete consumer"

\* A slip: a connection kept by the client and used again.
PooledConn == IF connSeq = 0 THEN 1 ELSE connSeq

\* nats.Connect makes a new connection on every call; the client keeps none.

NewConn == connSeq + 1

ClientConnect ==
    /\ pc = "connect"
    /\ \/ /\ cur' = NewConn
          /\ connSeq' = IF cur' > connSeq THEN cur' ELSE connSeq
          /\ open' = open \cup {cur'}
          /\ reqs' = 0
          /\ pc' = "jetstream"
          /\ UNCHANGED ret
       \/ /\ ret' = [err |-> "failed to connect to nats", info |-> Null]
          /\ pc' = "returned"
          /\ UNCHANGED <<connSeq, open, cur, reqs>>
    /\ UNCHANGED <<handler, req, resp, call, calls, tfVars, server, serverAtStart, closed>>
    /\ UNCHANGED pureVars

ClientJetStream ==
    /\ pc = "jetstream"
    /\ \/ /\ pc' = "request"
          /\ UNCHANGED ret
       \/ /\ ret' = [err |-> "failed to create a jetstream context", info |-> Null]
          /\ pc' = "defer"
    /\ UNCHANGED <<handler, req, resp, call, calls, tfVars, server, serverAtStart,
                   connSeq, open, closed, cur, reqs>>
    /\ UNCHANGED pureVars

ClientRequest ==
    /\ pc = "request"
    /\ \E out \in jsOutcomes(call, server) :
        /\ server' = out.srv
        /\ ret' = [err |-> IF out.err = "" THEN "" ELSE requestErr(call.method, out.err),
                   info |-> out.info]
    /\ reqs' = reqs + 1
    /\ pc' = "defer"
    /\ UNCHANGED <<handler, req, resp, call, calls, tfVars, serverAtStart,
                   connSeq, open, closed, cur>>
    /\ UNCHANGED pureVars

\* The deferred nc.Close() runs as the method returns.
ClientDeferClose ==
    /\ pc = "defer"
    /\ open' = open \ {cur}
    /\ closed' = closed \cup {cur}
    /\ pc' = "returned"
    /\ UNCHANGED <<handler, req, resp, call, calls, ret, tfVars, server, serverAtStart,
                   connSeq, cur, reqs>>
    /\ UNCHANGED pureVars

(***************************************************************************)
(* A handler invocation.  The framework hands the handler a response whose *)
(* state is null (Create, data source Read) or the prior state (Read,      *)
(* Update, Delete); the handler runs to its client call (Start, Call) or   *)
(* returns before it (Return); when the client method has returned, the    *)
(* handler's ...Return action finishes it and Terraform keeps the          *)
(* response's state.                                                       *)
(***************************************************************************)
Start(h, rq) ==
    /\ handler' = h
    /\ req' = rq
    /\ serverAtStart' = server
    /\ ret' = NoRet
    /\ cur' = 0
    /\ reqs' = 0

Call(c, r) ==
    /\ call' = c
    /\ calls' = <<c.method>>
    /\ resp' = r
    /\ pc' = "connect"

Return(r) ==
    /\ call' = NoCall
    /\ calls' = <<>>
    /\ resp' = r
    /\ pc' = "done"

Response(st) == [state |-> st, diags |-> <<>>]

\* After Delete the framework removes the resource unless an error was reported.
AfterDelete(r) == IF HasError(r) THEN r.state ELSE Null

(***************************************************************************)
(* internal/provider/stream_resource.go: Create, Read, Update, Delete.     *)
(***************************************************************************)
streamCreateCall(data) ==
    [method |-> "CreateStream", stream |-> data.name, consumer |-> "",
     cfg |-> Some(toStreamConfig(data))]

streamCreateAfter(r, rt) ==
    IF rt.err # "" THEN AddError(r, "Client error")
    ELSE StateSet(r, fromStreamInfo(rt.info[1]))

StreamCreate ==
    /\ pc = "done" /\ connSeq < MaxConns
    /\ tfStream = Null
    /\ \E plan \in StreamPlans :
        /\ Start("stream.Create", [plan |-> Some(plan), state |-> Null])
        /\ Call(streamCreateCall(plan), Response(Null))
    /\ UNCHANGED <<tfVars, server, connSeq, open, closed>>
    /\ UNCHANGED pureVars

StreamCreateReturn ==
    /\ pc = "returned" /\ handler = "stream.Create"
    /\ resp' = streamCreateAfter(resp, ret)
    /\ tfStream' = resp'.state
    /\ pc' = "done"
    /\ UNCHANGED <<handler, req, call, calls, tfConsumer, dsStream, serverAtStart, clientVars>>
    /\ UNCHANGED pureVars

streamReadCall(data) ==
    [method |-> "GetStream", stream |-> data.name, consumer |-> "", cfg |-> Null]

\* A slip: not found treated as any other error, the resource kept.
streamReadAfterKeeps(r, rt) ==
    IF rt.err # ""
    THEN AddError(r, "Client error")
    ELSE StateSet(r, fromStreamInfo(rt.info[1]))

streamReadAfter(r, rt) ==
    IF rt.err # ""
    THEN IF rt.err = "ErrNotFound"
         THEN RemoveResource(AddWarning(r, "Resource not found"))
         ELSE AddError(r, "Client error")
    ELSE StateSet(r, fromStreamInfo(rt.info[1]))

StreamRead ==
    /\ pc = "done" /\ connSeq < MaxConns
    /\ tfStream # Null
    /\ Start("stream.Read", [plan |-> Null, state |-> tfStream])
    /\ Call(streamReadCall(tfStream[1]), Response(tfStream))
    /\ UNCHANGED <<tfVars, server, connSeq, open, closed>>
    /\ UNCHANGED pureVars

StreamReadReturn ==
    /\ pc = "returned" /\ handler = "stream.Read"
    /\ resp' = streamReadAfter(resp, ret)
    /\ tfStream' = resp'.state
    /\ pc' = "done"
    /\ UNCHANGED <<handler, req, call, calls, tfConsumer, dsStream, serverAtStart, clientVars>>
    /\ UNCHANGED pureVars

streamUpdateCall(plan) ==
    [method |-> "UpdateStream", stream |-> plan.name, consumer |-> "",
     cfg |-> Some(toStreamConfig(plan))]

streamUpdateAfter(r, rt) ==
    IF rt.err # "" THEN AddError(r, "Client error")
    ELSE StateSet(r, fromStreamInfo(rt.info[1]))

\* 2. Validate id is not changed
streamNameChanged(plan, state) == plan.name # state.name

StreamUpdate ==
    /\ pc = "done" /\ connSeq < MaxConns
    /\ tfStream # Null
    /\ \E plan \in StreamPlans :
        /\ Start("stream.Update", [plan |-> Some(plan), state |-> tfStream])
        /\ IF streamNameChanged(plan, tfStream[1])
           THEN Return(AddError(Response(tfStream), "Cannot change stream name"))
           ELSE Call(streamUpdateCall(plan), Response(tfStream))
    /\ UNCHANGED <<tfVars, server, connSeq, open, closed>>
    /\ UNCHANGED pureVars

StreamUpdateReturn ==
    /\ pc = "returned" /\ handler = "stream.Update"
    /\ resp' = streamUpdateAfter(resp, ret)
    /\ tfStream' = resp'.state
    /\ pc' = "done"
    /\ UNCHANGED <<handler, req, call, calls, tfConsumer, dsStream, serverAtStart, clientVars>>
    /\ UNCHANGED pureVars

streamDeleteCall(state) ==
    [method |-> "DeleteStream", stream |-> state.name, consumer |-> "", cfg |-> Null]

\* A slip: the error of DeleteStream dropped.
streamDeleteAfterLenient(r, rt) == r

streamDeleteAfter(r, rt) == IF rt.err # "" THEN AddError(r, "Client error") ELSE r

StreamDelete ==
    /\ pc = "done" /\ connSeq < MaxConns
    /\ tfStream # Null
    /\ Start("stream.Delete", [plan |-> Null, state |-> tfStream])
    /\ Call(streamDeleteCall(tfStream[1]), Response(tfStream))
    /\ UNCHANGED <<tfVars, server, connSeq, open, closed>>
    /\ UNCHANGED pureVars

StreamDeleteReturn ==
    /\ pc = "returned" /\ handler = "stream.Delete"
    /\ resp' = streamDeleteAfter(resp, ret)
    /\ tfStream' = AfterDelete(resp')
    /\ pc' = "done"
    /\ UNCHANGED <<handler, req, call, calls, tfConsumer, dsStream, serverAtStart, clientVars>>
    /\ UNCHANGED pureVars

(***************************************************************************)
(* internal/provider/stream_data_source.go: Read.                          *)
(***************************************************************************)
\* A slip: the data source deleting what it should read.
dataSourceReadCallDeletes(config) ==
    [method |-> "DeleteStream", stream |-> config.name, consumer |-> "", cfg |-> Null]

dataSourceReadCall(config) ==
    [method |-> "GetStream", stream |-> config.name, consumer |-> "", cfg |-> Null]

dataSourceReadAfter(r, rt) ==
    IF rt.err # "" THEN AddError(r, "Client error")
    ELSE StateSet(r, fromStreamInfo(rt.info[1]))

DataSourceRead ==
    /\ pc = "done" /\ connSeq < MaxConns
    /\ \E n \in StreamNames :
        /\ Start("datasource.Read", [plan |-> Some([name |-> n]), state |-> Null])
        /\ Call(dataSourceReadCall([name |-> n]), Response(Null))
    /\ UNCHANGED <<tfVars, server, connSeq, open, closed>>
    /\ UNCHANGED pureVars

DataSourceReadReturn ==
    /\ pc = "returned" /\ handler = "datasource.Read"
    /\ resp' = dataSourceReadAfter(resp, ret)
    /\ dsStream' = IF HasError(resp') THEN dsStream ELSE resp'.state
    /\ pc' = "done"
    /\ UNCHANGED <<handler, req, call, calls, tfStream, tfConsumer, serverAtStart, clientVars>>
    /\ UNCHANGED pureVars

(***************************************************************************)
(* internal/provider/consumer_resource.go: Create, Read, Update, Delete.   *)
(***************************************************************************)
consumerCreateCall(data, cfg) ==
    [method |-> "CreateConsumer", stream |-> data.stream_name, consumer |-> "",
     cfg |-> cfg]

consumerCreateAfter(r, rt) ==
    IF rt.err # "" THEN AddError(r, "Client error")
    ELSE StateSet(r, fromConsumerInfo(rt.info[1]))

ConsumerCreate ==
    /\ pc = "done" /\ connSeq < MaxConns
    /\ tfConsumer = Null
    /\ \E data \in ConsumerPlans :
        /\ Start("consumer.Create", [plan |-> Some(data), state |-> Null])
        /\ IF toConsumerConfig(data).err # ""
           THEN Return(AddError(Response(Null), "Validation error"))
           ELSE Call(consumerCreateCall(data, toConsumerConfig(data).cfg), Response(Null))
    /\ UNCHANGED <<tfVars, server, connSeq, open, closed>>
    /\ UNCHANGED pureVars

ConsumerCreateReturn ==
    /\ pc = "returned" /\ handler = "consumer.Create"
    /\ resp' = consumerCreateAfter(resp, ret)
    /\ tfConsumer' = resp'.state
    /\ pc' = "done"
    /\ UNCHANGED <<handler, req, call, calls, tfStream, dsStream, serverAtStart, clientVars>>
    /\ UNCHANGED pureVars

consumerReadCall(data) ==
    [method |-> "GetConsumer", stream |-> data.stream_name, consumer |-> data.name,
     cfg |-> Null]

consumerReadAfter(r, rt) ==
    IF rt.err # ""
    THEN IF rt.err = "ErrNotFound"
         THEN RemoveResource(AddWarning(r, "Resource not found"))
         ELSE AddError(r, "Client error")
    ELSE StateSet(r, fromConsumerInfo(rt.info[1]))

ConsumerRead ==
    /\ pc = "done" /\ connSeq < MaxConns
    /\ tfConsumer # Null
    /\ Start("consumer.Read", [plan |-> Null, state |-> tfConsumer])
    /\ Call(consumerReadCall(tfConsumer[1]), Response(tfConsumer))
    /\ UNCHANGED <<tfVars, server, connSeq, open, closed>>
    /\ UNCHANGED pureVars

ConsumerReadReturn ==
    /\ pc = "returned" /\ handler = "consumer.Read"
    /\ resp' = consumerReadAfter(resp, ret)
    /\ tfConsumer' = resp'.state
    /\ pc' = "done"
    /\ UNCHANGED <<handler, req, call, calls, tfStream, dsStream, serverAtStart, clientVars>>
    /\ UNCHANGED pureVars

\* A slip: Update creating the consumer anew.
consumerUpdateCallsCreate(plan, cfg) ==
    [method |-> "CreateConsumer", stream |-> plan.stream_name, consumer |-> "",
     cfg |-> cfg]

consumerUpdateCall(plan, cfg) ==
    [method |-> "UpdateConsumer", stream |-> plan.stream_name, consumer |-> "",
     cfg |-> cfg]

consumerUpdateAfter(r, rt) ==
    IF rt.err # "" THEN AddError(r, "Client error")
    ELSE StateSet(r, fromConsumerInfo(rt.info[1]))

\* A slip: the stream name left out of the identity check.
consumerIdChangedNameOnly(plan, state) == plan.name # state.name

\* 2. Validate id is not changed
consumerIdChanged(plan, state) ==
    plan.name # state.name \/ plan.stream_name # state.stream_name

ConsumerUpdate ==
    /\ pc = "done" /\ connSeq < MaxConns
    /\ tfConsumer # Null
    /\ \E plan \in ConsumerPlans :
        /\ Start("consumer.Update", [plan |-> Some(plan), state |-> tfConsumer])
        /\ IF consumerIdChanged(plan, tfConsumer[1])
           THEN Return(AddError(Response(tfConsumer), "Cannot change consumer or stream name"))
           ELSE IF toConsumerConfig(plan).err # ""
           THEN Return(AddError(Response(tfConsumer), "Validation error"))
           ELSE Call(consumerUpdateCall(plan, toConsumerConfig(plan).cfg),
                     Response(tfConsumer))
    /\ UNCHANGED <<tfVars, server, connSeq, open, closed>>
    /\ UNCHANGED pureVars

ConsumerUpdateReturn ==
    /\ pc = "returned" /\ handler = "consumer.Update"
    /\ resp' = consumerUpdateAfter(resp, ret)
    /\ tfConsumer' = resp'.state
    /\ pc' = "done"
    /\ UNCHANGED <<handler, req, call, calls, tfStream, dsStream, serverAtStart, clientVars>>
    /\ UNCHANGED pureVars

consumerDeleteCall(state) ==
    [method |-> "DeleteConsumer", stream |-> state.stream_name, consumer |-> state.name,
     cfg |-> Null]

consumerDeleteAfter(r, rt) == IF rt.err # "" THEN AddError(r, "Client error") ELSE r

ConsumerDelete ==
    /\ pc = "done" /\ connSeq < MaxConns
    /\ tfConsumer # Null
    /\ Start("consumer.Delete", [plan |-> Null, state |-> tfConsumer])
    /\ Call(consumerDeleteCall(tfConsumer[1]), Response(tfConsumer))
    /\ UNCHANGED <<tfVars, server, connSeq, open, closed>>
    /\ UNCHANGED pureVars

ConsumerDeleteReturn ==
    /\ pc = "returned" /\ handler = "consumer.Delete"
    /\ resp' = consumerDeleteAfter(resp, ret)
    /\ tfConsumer' = AfterDelete(resp')
    /\ pc' = "done"
    /\ UNCHANGED <<handler, req, call, calls, tfStream, dsStream, serverAtStart, clientVars>>
    /\ UNCHANGED pureVars

(***************************************************************************)
(* A stream or consumer deleted outside Terraform, between two handler     *)
(* invocations ("possibly deleted outside terraform").                     *)
(***************************************************************************)
DeletedOutside ==
    /\ pc = "done"
    /\ \/ \E n \in StreamNames :
            /\ server.streams[n] # Null
            /\ server' = [streams |-> [server.streams EXCEPT ![n] = Null],
                          consumers |-> [k \in ConsumerKeys |->
                                            IF k[1] = n THEN Null ELSE server.consumers[k]]]
       \/ \E k \in ConsumerKeys :
            /\ server.consumers[k] # Null
            /\ server' = [server EXCEPT !.consumers[k] = Null]
    /\ UNCHANGED <<pc, handler, req, resp, call, calls, ret, tfVars, serverAtStart,
                   connSeq, open, closed, cur, reqs>>
    /\ UNCHANGED pureVars

(***************************************************************************)
(* A stream or consumer on the server given another configuration outside  *)
(* Terraform, between two handler invocations: what Read's refresh and     *)
(* Update's and Delete's prior state may then differ from.  The new        *)
(* configurations are those of the stream plans and of the consumer plans  *)
(* without a deliver group.                                                *)
(***************************************************************************)
ChangedOutside ==
    /\ pc = "done"
    /\ \/ \E p \in StreamPlans :
            /\ server.streams[p.name] \notin {Null, Some(toStreamConfig(p))}
            /\ server' = [server EXCEPT !.streams[p.name] = Some(toStreamConfig(p))]
       \/ \E p \in {q \in ConsumerPlans : q.deliver_group = ""} :
            /\ toConsumerConfig(p).err = ""
            /\ server.consumers[<<p.stream_name, p.name>>]
                   \notin {Null, toConsumerConfig(p).cfg}
            /\ server' = [server EXCEPT
                              !.consumers[<<p.stream_name, p.name>>] = toConsumerConfig(p).cfg]
    /\ UNCHANGED <<pc, handler, req, resp, call, calls, ret, tfVars, serverAtStart,
                   connSeq, open, closed, cur, reqs>>
    /\ UNCHANGED pureVars

Next ==
    \/ StreamCreate \/ StreamCreateReturn
    \/ StreamRead \/ StreamReadReturn
    \/ StreamUpdate \/ StreamUpdateReturn
    \/ StreamDelete \/ StreamDeleteReturn
    \/ DataSourceRead \/ DataSourceReadReturn
    \/ ConsumerCreate \/ ConsumerCreateReturn
    \/ ConsumerRead \/ ConsumerReadReturn
    \/ ConsumerUpdate \/ ConsumerUpdateReturn
    \/ ConsumerDelete \/ ConsumerDeleteReturn
    \/ ClientConnect \/ ClientJetStream \/ ClientRequest \/ ClientDeferClose
    \/ DeletedOutside \/ ChangedOutside

Spec == Init /\ [][Next]_vars

(***************************************************************************)
(* internal/provider/provider.go: Configure, and the Configure of the two  *)
(* resources and the data source, which receive what it handed on.         *)
(***************************************************************************)
DefaultURL == "nats://localhost:4222"

ConfigURLs == {Null, Some(""), Some("nats://a:4222"), Some(DefaultURL)}

\* NATS_URL: Null when unset.
EnvURLs == {Null, Some(""), Some("nats://b:4222"), Some("nats://a:4222")}

\* os.Getenv: "" when the variable is unset.
Getenv(env) == IF env = Null THEN "" ELSE env[1]

\* A slip: the environment consulted before the configuration.
configureURLEnvFirst(configURL, env) ==
    IF Getenv(env) # "" THEN [branch |-> "NATS_URL", url |-> Getenv(env)]
    ELSE IF configURL # Null THEN [branch |-> "url", url |-> configURL[1]]
    ELSE [branch |-> "default", url |-> DefaultURL]

\* The switch of Configure: the case taken and the url it yields.
configureURL(configURL, env) ==
    IF configURL # Null THEN [branch |-> "url", url |-> configURL[1]]
    ELSE IF Getenv(env) # "" THEN [branch |-> "NATS_URL", url |-> Getenv(env)]
    ELSE [branch |-> "default", url |-> DefaultURL]

NewClient(url) == [url |-> url]

InitConfigure ==
    /\ InitMain
    /\ \E c \in ConfigURLs, e \in EnvURLs :
          provSt = [phase |-> "unconfigured", config_url |-> c, env |-> e, branch |-> "",
                    ResourceData |-> Null, DataSourceData |-> Null,
                    streamResource |-> Null, consumerResource |-> Null,
                    streamDataSource |-> Null]
    /\ enumSt = Idle
    /\ valSt = Idle
    /\ impSt = Idle
    /\ rtSt = Idle

ProviderConfigure ==
    /\ provSt.phase = "unconfigured"
    /\ LET chosen == configureURL(provSt.config_url, provSt.env)
           client == NewClient(chosen.url) IN
       provSt' = [provSt EXCEPT !.phase = "configured", !.branch = chosen.branch,
                                !.DataSourceData = Some(client),
                                !.ResourceData = Some(client)]
    /\ UNCHANGED <<mainVars, enumSt, valSt, impSt, rtSt>>

\* if req.ProviderData == nil { return }; r.client = client.  ProviderData is
\* nil until the provider is configured, and the client after.
resourceConfigure(st, r, providerData) ==
    IF providerData = Null THEN st ELSE [st EXCEPT ![r] = providerData]

StreamResourceConfigure ==
    /\ provSt.phase # "idle"
    /\ provSt' = resourceConfigure(provSt, "streamResource", provSt.ResourceData)
    /\ UNCHANGED <<mainVars, enumSt, valSt, impSt, rtSt>>

ConsumerResourceConfigure ==
    /\ provSt.phase # "idle"
    /\ provSt' = resourceConfigure(provSt, "consumerResource", provSt.ResourceData)
    /\ UNCHANGED <<mainVars, enumSt, valSt, impSt, rtSt>>

StreamDataSourceConfigure ==
    /\ provSt.phase # "idle"
    /\ provSt' = resourceConfigure(provSt, "streamDataSource", provSt.DataSourceData)
    /\ UNCHANGED <<mainVars, enumSt, valSt, impSt, rtSt>>

NextConfigure ==
    \/ ProviderConfigure
    \/ StreamResourceConfigure
    \/ ConsumerResourceConfigure
    \/ StreamDataSourceConfigure

SpecConfigure == InitConfigure /\ [][NextConfigure]_vars

(***************************************************************************)
(* The enum mappings at work: the five enum attributes of a plan taken to  *)
(* the nats.go constants (To...), back to strings (From...), and to the    *)
(* constants again.                                                        *)
(***************************************************************************)
EnumStrings ==
    [storage : StorageStrings, discard : DiscardStrings, retention : RetentionStrings,
     ack_policy : AckPolicyStrings, deliver_policy : DeliverPolicyStrings]

toEnums(m) ==
    [storage        |-> ToStorageType(m.storage),
     discard        |-> ToDiscardPolicy(m.discard),
     retention      |-> ToRetentionPolicy(m.retention),
     ack_policy     |-> ToAckPolicy(m.ack_policy),
     deliver_policy |-> ToDeliverPolicy(m.deliver_policy)]

fromEnums(c) ==
    [storage        |-> FromStorageType(c.storage),
     discard        |-> FromDiscardPolicy(c.discard),
     retention      |-> FromRetentionPolicy(c.retention),
     ack_policy     |-> FromAckPolicy(c.ack_policy),
     deliver_policy |-> FromDeliverPolicy(c.deliver_policy)]

InitEnum ==
    /\ InitMain
    /\ provSt = Idle
    /\ \E m \in EnumStrings :
          enumSt = [phase |-> "strings", strs |-> m, consts |-> Null, back |-> Null,
                    again |-> Null]
    /\ valSt = Idle
    /\ impSt = Idle
    /\ rtSt = Idle

EnumTo ==
    /\ enumSt.phase = "strings"
    /\ enumSt' = [enumSt EXCEPT !.phase = "consts", !.consts = Some(toEnums(enumSt.strs))]
    /\ UNCHANGED <<mainVars, provSt, valSt, impSt, rtSt>>

EnumFrom ==
    /\ enumSt.phase = "consts"
    /\ enumSt' = [enumSt EXCEPT !.phase = "back", !.back = Some(fromEnums(enumSt.consts[1]))]
    /\ UNCHANGED <<mainVars, provSt, valSt, impSt, rtSt>>

EnumToAgain ==
    /\ enumSt.phase = "back"
    /\ enumSt' = [enumSt EXCEPT !.phase = "again", !.again = Some(toEnums(enumSt.back[1]))]
    /\ UNCHANGED <<mainVars, provSt, valSt, impSt, rtSt>>

NextEnum == EnumTo \/ EnumFrom \/ EnumToAgain

SpecEnum == InitEnum /\ [][NextEnum]_vars

(***************************************************************************)
(* internal/provider/stream_resource.go, Schema: the validator and the     *)
(* default of each int64 attribute.                                        *)
(***************************************************************************)
MaxInt == 6

Int64Attrs ==
    {"num_replicas", "max_msgs", "max_consumers", "max_bytes", "max_msgs_per_subject",
     "max_msg_size", "max_age", "duplicate_window"}

streamInt64Validator(attr, v) ==
    CASE attr = "num_replicas" -> Between(I64(1), I64(5), v)
      [] attr = "max_age"      -> AtLeast(I64(0), v)
      [] OTHER                 -> infinityOrPositiveInt64Validator(v)

streamInt64Default(attr) ==
    CASE attr = "num_replicas"     -> I64(1)
      [] attr = "max_age"          -> I64(0)
      [] attr = "duplicate_window" -> I64Parts(120, 0)
      [] OTHER                     -> I64(-1)

\* The values tried: the small integers, and +-120000000000.
Int64Inputs ==
    {[value |-> I64(n), kind |-> "small", n |-> n] : n \in -MaxInt..MaxInt}
        \cup {[value |-> I64Parts(120, 0), kind |-> "large", n |-> 0],
              [value |-> I64Parts(-120, 0), kind |-> "large negative", n |-> 0]}

InitSchema ==
    /\ InitMain
    /\ provSt = Idle
    /\ enumSt = Idle
    /\ \E a \in Int64Attrs, in \in Int64Inputs :
          valSt = [phase |-> "config", attr |-> a, in |-> in, ok |-> FALSE]
    /\ impSt = Idle
    /\ rtSt = Idle

ValidateInt64 ==
    /\ valSt.phase = "config"
    /\ valSt' = [valSt EXCEPT !.phase = "validated",
                              !.ok = streamInt64Validator(valSt.attr, valSt.in.value)]
    /\ UNCHANGED <<mainVars, provSt, enumSt, impSt, rtSt>>

NextSchema == ValidateInt64

SpecSchema == InitSchema /\ [][NextSchema]_vars

(***************************************************************************)
(* internal/provider/consumer_resource.go: ImportState.  An ID is a        *)
(* sequence of characters.                                                 *)
(***************************************************************************)
MaxIdLen == 4

IdChars == {"s", "c", "#"}

ImportIds == UNION {[1..n -> IdChars] : n \in 0..MaxIdLen}

\* strings.Split(s, "#")
RECURSIVE Split(_)
Split(s) ==
    IF \A i \in 1..Len(s) : s[i] # "#" THEN <<s>>
    ELSE LET i == CHOOSE k \in 1..Len(s) : s[k] = "#" /\ \A j \in 1..(k - 1) : s[j] # "#"
         IN <<SubSeq(s, 1, i - 1)>> \o Split(SubSeq(s, i + 1, Len(s)))

\* A slip: the ID passed through to name, and the tokens only checked.
importStatePassthroughOnly(id) ==
    LET tokens == Split(id)
        bad == Len(tokens) # 2 \/ tokens[1] = <<>> \/ tokens[2] = <<>> IN
    [state |-> [stream_name |-> Some(tokens[1]), name |-> Some(id)],
     diags |-> IF bad THEN <<[severity |-> "error", summary |-> "Invalid import id"]>>
               ELSE <<>>,
     fault |-> FALSE]

\* The response of ImportState: the state's two attributes, the diagnostics,
\* and whether the handler faulted (tokens[1] indexed past the end) instead
\* of returning.
importState(id) ==
    LET passthrough == [stream_name |-> Null, name |-> Some(id)]
        tokens == Split(id)
        bad == Len(tokens) # 2 \/ tokens[1] = <<>> \/ tokens[2] = <<>>
        diags == IF bad THEN <<[severity |-> "error", summary |-> "Invalid import id"]>>
                 ELSE <<>>
        withStream == [passthrough EXCEPT !.stream_name = Some(tokens[1])] IN
    IF Len(tokens) < 2
    THEN [state |-> withStream, diags |-> diags, fault |-> TRUE]
    ELSE [state |-> [withStream EXCEPT !.name = Some(tokens[2])], diags |-> diags,
          fault |-> FALSE]

InitImport ==
    /\ InitMain
    /\ provSt = Idle
    /\ enumSt = Idle
    /\ valSt = Idle
    /\ rtSt = Idle
    /\ \E id \in ImportIds :
          impSt = [phase |-> "request", id |-> id,
                   state |-> [stream_name |-> Null, name |-> Null], diags |-> <<>>,
                   fault |-> FALSE]

ConsumerImportState ==
    /\ impSt.phase = "request"
    /\ LET r == importState(impSt.id) IN
       impSt' = [impSt EXCEPT !.phase = "done", !.state = r.state, !.diags = r.diags,
                              !.fault = r.fault]
    /\ UNCHANGED <<mainVars, provSt, enumSt, valSt, rtSt>>

NextImport == ConsumerImportState

SpecImport == InitImport /\ [][NextImport]_vars

(***************************************************************************)
(* The round trip of a model: what a handler sends for it (toStreamConfig, *)
(* toConsumerConfig) and what it writes as state (fromStreamInfo,          *)
(* fromConsumerInfo) when the server returns the configuration it was      *)
(* sent.  The models are those the schemas admit: every attribute but the  *)
(* lists' elements is Required or has a Default, so it is known; an        *)
(* element of a list may be null.                                          *)
(***************************************************************************)
SubjectLists ==
    {<<>>, <<Some("a.*")>>, <<Some("a.*"), Some("b.>")>>, <<Some("b.>"), Some("a.*")>>,
     <<Null>>, <<Some("a.*"), Null>>}

StreamModels ==
    {[DefaultStream("orders") EXCEPT
          !.subjects = Slice(subj), !.storage = st, !.retention = rp, !.discard = dp,
          !.num_replicas = I64(nr), !.max_msgs = mm, !.max_bytes = mb,
          !.max_msgs_per_subject = mps, !.max_msg_size = msz, !.max_age = age,
          !.duplicate_window = dw, !.allow_direct = ad] :
        subj \in SubjectLists, st \in StorageStrings, rp \in RetentionStrings,
        dp \in DiscardStrings, nr \in {1, 3}, mm \in {I64(-1), I64(1000)},
        mb \in {I64(-1), I64Parts(8, 0)}, mps \in {I64(-1), I64(1)},
        msz \in {I64(-1), I64Parts(3, 0)}, age \in {I64(0), I64Parts(3600, 0)},
        dw \in {I64Parts(120, 0), I64(-1)}, ad \in BOOLEAN}

ConsumerModels ==
    [stream_name     : StreamNames,
     name            : ConsumerNames,
     mode            : ModeStrings,
     deliver_policy  : DeliverPolicyStrings,
     ack_policy      : AckPolicyStrings,
     filter_subjects : {Slice(subj) : subj \in SubjectLists},
     deliver_subject : {"", "deliver.orders"},
     deliver_group   : {"", "workers"}]

RoundTrip(plan) ==
    [phase |-> "plan", plan |-> plan, cfg |-> Null, err |-> "", info |-> Null,
     state |-> Null]

InitStreamRoundTrip ==
    /\ InitMain
    /\ provSt = Idle
    /\ enumSt = Idle
    /\ valSt = Idle
    /\ impSt = Idle
    /\ \E plan \in StreamModels : rtSt = RoundTrip(plan)

\* r.client.CreateStream(toStreamConfig(data)) / UpdateStream(toStreamConfig(plan))
StreamSend ==
    /\ rtSt.phase = "plan"
    /\ rtSt' = [rtSt EXCEPT !.phase = "sent", !.cfg = Some(toStreamConfig(rtSt.plan))]
    /\ UNCHANGED <<mainVars, provSt, enumSt, valSt, impSt>>

\* The server returns the configuration it was sent;
\* data = fromStreamInfo(streamInfo); resp.State.Set(ctx, &data)
StreamWrite ==
    /\ rtSt.phase = "sent"
    /\ LET streamInfo == StreamInfoOf(rtSt.cfg[1]) IN
       rtSt' = [rtSt EXCEPT !.phase = "written", !.info = Some(streamInfo),
                            !.state = Some(fromStreamInfo(streamInfo))]
    /\ UNCHANGED <<mainVars, provSt, enumSt, valSt, impSt>>

NextStreamRoundTrip == StreamSend \/ StreamWrite

SpecStreamRoundTrip == InitStreamRoundTrip /\ [][NextStreamRoundTrip]_vars

InitConsumerRoundTrip ==
    /\ InitMain
    /\ provSt = Idle
    /\ enumSt = Idle
    /\ valSt = Idle
    /\ impSt = Idle
    /\ \E plan \in ConsumerModels : rtSt = RoundTrip(plan)

\* consumerConfig, err := toConsumerConfig(data); on an error the handler
\* returns, otherwise it calls CreateConsumer / UpdateConsumer.
ConsumerSend ==
    /\ rtSt.phase = "plan"
    /\ LET r == toConsumerConfig(rtSt.plan) IN
       rtSt' = [rtSt EXCEPT !.phase = IF r.err # "" THEN "rejected" ELSE "sent",
                            !.cfg = r.cfg, !.err = r.err]
    /\ UNCHANGED <<mainVars, provSt, enumSt, valSt, impSt>>

\* The server returns the configuration it was sent, with the stream's and
\* the consumer's name; data = fromConsumerInfo(consumerInfo); State.Set.
ConsumerWrite ==
    /\ rtSt.phase = "sent"
    /\ LET consumerInfo == ConsumerInfoOf(rtSt.plan.stream_name, rtSt.cfg[1]) IN
       rtSt' = [rtSt EXCEPT !.phase = "written", !.info = Some(consumerInfo),
                            !.state = Some(fromConsumerInfo(consumerInfo))]
    /\ UNCHANGED <<mainVars, provSt, enumSt, valSt, impSt>>

NextConsumerRoundTrip == ConsumerSend \/ ConsumerWrite

SpecConsumerRoundTrip == InitConsumerRoundTrip /\ [][NextConsumerRoundTrip]_vars

(***************************************************************************)
(* Properties of the handlers and the client (under Spec).                 *)
(***************************************************************************)
InClient == pc \in {"jetstream", "request", "defer"}

\* C1: every client method opens one fresh connection, makes at most one
\* JetStream request on it and closes it before it returns, on every path;
\* between calls no connection is open, and none is used by two calls.
ClientOneShot ==
    /\ ~InClient => open = {}
    /\ InClient => open = {cur} /\ cur = connSeq /\ cur \notin closed
    /\ open \cup closed = 1..connSeq
    /\ reqs <= 1
    /\ pc \in {"connect", "jetstream", "request"} => reqs = 0

ClientOneShotWitness ==
    /\ pc = "returned"
    /\ call.method = "DeleteConsumer"
    /\ ret.err = "failed to create a jetstream context"
    /\ closed = {1, 2, 3}
    /\ open = {}

ResourceHandlers ==
    {"stream.Create", "stream.Read", "stream.Update", "stream.Delete",
     "consumer.Create", "consumer.Read", "consumer.Update", "consumer.Delete"}

Corresponding(h) ==
    CASE h = "stream.Create"   -> "CreateStream"
      [] h = "stream.Read"     -> "GetStream"
      [] h = "stream.Update"   -> "UpdateStream"
      [] h = "stream.Delete"   -> "DeleteStream"
      [] h = "consumer.Create" -> "CreateConsumer"
      [] h = "consumer.Read"   -> "GetConsumer"
      [] h = "consumer.Update" -> "UpdateConsumer"
      [] h = "consumer.Delete" -> "DeleteConsumer"

\* C2: an invocation of a resource handler calls at most one client method,
\* the corresponding one, and a failed call is not made again.
OneClientCall ==
    handler \in ResourceHandlers =>
        /\ Len(calls) <= 1
        /\ \A i \in 1..Len(calls) : calls[i] = Corresponding(handler)
        /\ pc # "done" => calls = <<call.method>>

OneClientCallWitness ==
    /\ pc = "done"
    /\ handler = "consumer.Update"
    /\ ret.err = "failed to update consumer"
    /\ calls = <<"UpdateConsumer">>
    /\ HasError(resp)

\* The push/pull combinations the mode check is to refuse.
Inconsistent(plan) ==
    \/ plan.mode = "pull" /\ plan.deliver_subject # ""
    \/ plan.mode = "push" /\ plan.deliver_subject = ""

ModeChecked(plan) ==
    IF Inconsistent(plan)
    THEN /\ pc = "done"
         /\ HasDiag(resp, "error", "Validation error")
         /\ calls = <<>>
         /\ resp.state = req.state
         /\ tfConsumer = req.state
    ELSE /\ ~HasDiag(resp, "error", "Validation error")
         /\ calls = <<Corresponding(handler)>>

\* C4 as stated: Create and Update refuse an inconsistent plan with a
\* "Validation error", no client call and no state write, and accept every
\* other plan.
ModeConsistencyAsStated ==
    handler \in {"consumer.Create", "consumer.Update"} => ModeChecked(req.plan[1])

SameIdentity(plan, state) ==
    plan.name = state.name /\ plan.stream_name = state.stream_name

\* C4, amended: as stated for Create, and for Update when the plan keeps the
\* state's name and stream_name; an Update that changes them ends before the
\* mode check with "Cannot change consumer or stream name", no "Validation
\* error", no client call and no state write.
ModeConsistency ==
    /\ handler = "consumer.Create" => ModeChecked(req.plan[1])
    /\ handler = "consumer.Update" =>
          IF SameIdentity(req.plan[1], req.state[1])
          THEN ModeChecked(req.plan[1])
          ELSE /\ pc = "done"
               /\ HasDiag(resp, "error", "Cannot change consumer or stream name")
               /\ ~HasDiag(resp, "error", "Validation error")
               /\ calls = <<>>
               /\ resp.state = req.state
               /\ tfConsumer = req.state

ModeConsistencyWitness ==
    /\ pc = "done"
    /\ handler = "consumer.Update"
    /\ SameIdentity(req.plan[1], req.state[1])
    /\ req.plan[1].mode = "push"
    /\ req.plan[1].deliver_subject = ""
    /\ req.state[1].mode = "push"
    /\ HasDiag(resp, "error", "Validation error")

\* Terraform's state of the resource the handler is for.
TfStateOf(h) ==
    IF h \in {"stream.Create", "stream.Read", "stream.Update", "stream.Delete"}
    THEN tfStream ELSE tfConsumer

\* Whether the resource Delete was called for was on the server.
GoneAtStart ==
    IF handler = "stream.Delete"
    THEN serverAtStart.streams[req.state[1].name] = Null
    ELSE serverAtStart.consumers[<<req.state[1].stream_name, req.state[1].name>>] = Null

\* C5: when the client method called by Create, Update or Delete returns an
\* error, the handler reports an error and writes no state, so Terraform's
\* state is what it was (absent after Create); Delete of a resource that is
\* no longer on the server is such an error.
ErrorsKeepState ==
    (/\ pc = "done"
     /\ handler \in ResourceHandlers \ {"stream.Read", "consumer.Read"}
     /\ calls # <<>>)
    =>
        /\ ret.err # "" =>
              /\ HasError(resp)
              /\ resp.state = req.state
              /\ TfStateOf(handler) = req.state
        /\ (handler \in {"stream.Delete", "consumer.Delete"} /\ reqs = 1 /\ GoneAtStart) =>
              /\ ret.err # ""
              /\ HasError(resp)
              /\ TfStateOf(handler) = req.state

ErrorsKeepStateWitness ==
    /\ pc = "done"
    /\ handler = "stream.Delete"
    /\ reqs = 1
    /\ GoneAtStart
    /\ HasError(resp)
    /\ tfStream = req.state
    /\ tfStream # Null

\* C6: the data source's Read calls only GetStream and leaves the server as
\* it is; when GetStream fails, not found included, it reports an error and
\* sets no state.
DataSourceReadOnly ==
    /\ [](handler = "datasource.Read" =>
            /\ Len(calls) <= 1
            /\ \A i \in 1..Len(calls) : calls[i] = "GetStream"
            /\ (pc = "done" /\ ret.err # "") => HasError(resp) /\ resp.state = Null)
    /\ [][(handler' = "datasource.Read" /\ (pc # "done" \/ pc' # "done"))
            => server' = server]_vars

DataSourceReadOnlyWitness ==
    /\ pc = "done"
    /\ handler = "datasource.Read"
    /\ ret.err = "ErrNotFound"
    /\ HasError(resp)
    /\ resp.state = Null
    /\ server.streams["events"] # Null

\* C7: a pull-mode plan that Create or Update accepts is sent to JetStream
\* with an empty DeliverGroup.
DeliverGroupOnlyForPush ==
    (/\ handler \in {"consumer.Create", "consumer.Update"}
     /\ calls # <<>>
     /\ req.plan[1].mode = "pull")
    => call.cfg[1].DeliverGroup = ""

(***************************************************************************)
(* Properties of the enum mappings (under SpecEnum).                       *)
(***************************************************************************)
EnumMaps == <<storageType, discardPolicy, retentionPolicy, ackPolicy, deliverPolicy>>

InvertedEnumMaps ==
    <<invertedStorageType, invertedDiscardPolicy, invertedRetentionPolicy,
      invertedAckPolicy, invertedDeliverPolicy>>

\* C3: for each of the five mappings From(To(s)) = s for every string the
\* schema allows, To(From(c)) = c for every constant of the mapping, and the
\* inverted map has as many entries as the original.
EnumBijective ==
    /\ enumSt.phase \in {"back", "again"} => enumSt.back[1] = enumSt.strs
    /\ enumSt.phase = "again" => enumSt.again = enumSt.consts
    /\ \A i \in 1..Len(EnumMaps) :
          Cardinality(DOMAIN InvertedEnumMaps[i]) = Cardinality(DOMAIN EnumMaps[i])

EnumBijectiveWitness ==
    /\ enumSt.phase = "again"
    /\ enumSt.strs = [storage |-> "memory", discard |-> "new", retention |-> "work",
                      ack_policy |-> "explicit", deliver_policy |-> "last"]
    /\ enumSt.again[1].storage = "MemoryStorage"
    /\ enumSt.back[1].retention = "work"

(***************************************************************************)
(* Properties of the provider's Configure (under SpecConfigure).           *)
(***************************************************************************)
EnvUnsetOrEmpty(env) == env = Null \/ env[1] = ""

\* C8: Configure takes the url attribute whenever it is not null, else
\* NATS_URL when it is not empty, else "nats://localhost:4222" (exactly when
\* url is null and NATS_URL is unset or empty), and hands the same client to
\* the resources and the data sources.
ConfigurePrecedence ==
    provSt.phase = "configured" =>
        LET url == provSt.ResourceData[1].url IN
        /\ provSt.config_url # Null => url = provSt.config_url[1]
        /\ (provSt.config_url = Null /\ ~EnvUnsetOrEmpty(provSt.env)) => url = provSt.env[1]
        /\ (provSt.config_url = Null /\ EnvUnsetOrEmpty(provSt.env)) =>
              url = "nats://localhost:4222"
        /\ provSt.branch = "default"
              <=> (provSt.config_url = Null /\ EnvUnsetOrEmpty(provSt.env))
        /\ provSt.DataSourceData = provSt.ResourceData
        /\ \A r \in {"streamResource", "consumerResource", "streamDataSource"} :
              provSt[r] # Null => provSt[r] = provSt.ResourceData

ConfigurePrecedenceWitness ==
    /\ provSt.phase = "configured"
    /\ provSt.config_url = Some("")
    /\ provSt.env = Some("nats://b:4222")
    /\ provSt.streamResource = Some([url |-> ""])
    /\ provSt.streamDataSource = Some([url |-> ""])

(***************************************************************************)
(* Properties of the stream schema's range checks (under SpecSchema).      *)
(***************************************************************************)
\* What the range check of attr is to answer for the input.
InRange(attr, in) ==
    CASE attr = "num_replicas" -> in.kind = "small" /\ 1 <= in.n /\ in.n <= 5
      [] attr = "max_age"      -> in.kind = "large" \/ (in.kind = "small" /\ in.n >= 0)
      [] OTHER                 -> \/ in.kind = "large"
                                  \/ in.kind = "small" /\ (in.n = -1 \/ in.n >= 1)

\* C9: num_replicas is accepted exactly when 1 <= v <= 5, max_age exactly
\* when v >= 0, the other six exactly when v = -1 or v >= 1; and the default
\* of every attribute is accepted by its validator.
RangeChecks ==
    valSt.phase = "validated" =>
        /\ valSt.ok <=> InRange(valSt.attr, valSt.in)
        /\ valSt.in.value = streamInt64Default(valSt.attr) => valSt.ok

RangeChecksWitness ==
    /\ valSt.phase = "validated"
    /\ valSt.attr = "duplicate_window"
    /\ valSt.in.value = I64Parts(120, 0)
    /\ valSt.in.value = streamInt64Default("duplicate_window")
    /\ valSt.ok

(***************************************************************************)
(* Properties of the consumer's ImportState (under SpecImport).            *)
(***************************************************************************)
Hashes(id) == {i \in 1..Len(id) : id[i] = "#"}

\* 'stream_name#consumer_name': exactly one '#', both parts non-empty.
WellFormed(id) ==
    /\ Cardinality(Hashes(id)) = 1
    /\ id[1] # "#"
    /\ id[Len(id)] # "#"

\* C10: import with a well-formed ID ends with stream_name the part before
\* '#' and name the part after it (not the whole ID), and no error.
ImportWellFormed ==
    (impSt.phase = "done" /\ WellFormed(impSt.id)) =>
        LET h == CHOOSE i \in Hashes(impSt.id) : TRUE IN
        /\ impSt.state.stream_name = Some(SubSeq(impSt.id, 1, h - 1))
        /\ impSt.state.name = Some(SubSeq(impSt.id, h + 1, Len(impSt.id)))
        /\ impSt.state.name # Some(impSt.id)
        /\ ~HasError(impSt)
        /\ ~impSt.fault

ImportWellFormedWitness ==
    /\ impSt.phase = "done"
    /\ impSt.id = <<"s", "s", "#", "c">>
    /\ impSt.state = [stream_name |-> Some(<<"s", "s">>), name |-> Some(<<"c">>)]
    /\ impSt.diags = <<>>

\* C11: import with a malformed ID (no '#', more than one '#', or an empty
\* part) reports the "Invalid import id" error and completes without a
\* fault (no index past the end of the split tokens), and neither
\* stream_name nor name is written from the tokens of the malformed ID: the
\* state stays as the passthrough left it.
ImportMalformedRejected ==
    (impSt.phase = "done" /\ ~WellFormed(impSt.id)) =>
        /\ HasDiag(impSt, "error", "Invalid import id")
        /\ ~impSt.fault
        /\ impSt.state.stream_name = Null
        /\ impSt.state.name = Some(impSt.id)

(***************************************************************************)
(* Properties of the resources' Read (under Spec).                         *)
(***************************************************************************)
\* The model of what the server held under the identity Read was called for.
ReadModelOnServer ==
    IF handler = "stream.Read"
    THEN fromStreamInfo(StreamInfoOf(serverAtStart.streams[req.state[1].name][1]))
    ELSE fromConsumerInfo(ConsumerInfoOf(req.state[1].stream_name,
             serverAtStart.consumers[<<req.state[1].stream_name, req.state[1].name>>][1]))

\* C12: Read of a stream or consumer resource: when the client's Get returns
\* ErrNotFound the resource is removed from the state and only a warning is
\* reported; on any other error an error is reported and the prior state is
\* left as it was; when Get succeeds the state is replaced by the model
\* built from the returned info.
ReadOutcomes ==
    (pc = "done" /\ handler \in {"stream.Read", "consumer.Read"}) =>
        /\ ret.err = "ErrNotFound" =>
              /\ resp.state = Null
              /\ TfStateOf(handler) = Null
              /\ resp.diags = <<[severity |-> "warning", summary |-> "Resource not found"]>>
        /\ ret.err \notin {"", "ErrNotFound"} =>
              /\ HasError(resp)
              /\ resp.state = req.state
              /\ TfStateOf(handler) = req.state
        /\ ret.err = "" =>
              /\ resp.diags = <<>>
              /\ resp.state = Some(IF handler = "stream.Read"
                                   THEN fromStreamInfo(ret.info[1])
                                   ELSE fromConsumerInfo(ret.info[1]))
              /\ resp.state = Some(ReadModelOnServer)
              /\ TfStateOf(handler) = resp.state

ReadOutcomesWitness ==
    /\ pc = "done"
    /\ handler = "stream.Read"
    /\ ret.err = "ErrNotFound"
    /\ req.state # Null
    /\ serverAtStart.streams[req.state[1].name] = Null
    /\ tfStream = Null
    /\ ~HasError(resp)
    /\ HasDiag(resp, "warning", "Resource not found")

(***************************************************************************)
(* Properties of Update's identity check (under Spec).                     *)
(***************************************************************************)
\* The name (and stream name) an Update's client call carries.
SentIdentity ==
    IF handler = "stream.Update"
    THEN call.stream = req.state[1].name /\ call.cfg[1].Name = req.state[1].name
    ELSE /\ call.stream = req.state[1].stream_name
         /\ call.cfg[1].Name = req.state[1].name
         /\ call.cfg[1].Durable = req.state[1].name

\* C13: Update cannot change the identity: a stream Update whose plan has
\* another name than the state, and a consumer Update whose plan has another
\* name or stream_name, reports an error (before the mode is validated),
\* makes no client call and leaves the state as it was; whenever an Update
\* calls the client, the name (and stream_name) it sends are the prior
\* state's.
IdentityKept ==
    /\ (handler = "stream.Update" /\ req.plan[1].name # req.state[1].name) =>
          /\ pc = "done"
          /\ calls = <<>> /\ call = NoCall /\ cur = 0 /\ reqs = 0
          /\ resp.diags = <<[severity |-> "error", summary |-> "Cannot change stream name"]>>
          /\ resp.state = req.state
          /\ tfStream = req.state
    /\ (/\ handler = "consumer.Update"
        /\ \/ req.plan[1].name # req.state[1].name
           \/ req.plan[1].stream_name # req.state[1].stream_name) =>
          /\ pc = "done"
          /\ calls = <<>> /\ call = NoCall /\ cur = 0 /\ reqs = 0
          /\ resp.diags = <<[severity |-> "error",
                             summary |-> "Cannot change consumer or stream name"]>>
          /\ resp.state = req.state
          /\ tfConsumer = req.state
    /\ (handler \in {"stream.Update", "consumer.Update"} /\ calls # <<>>) =>
          /\ call.method = IF handler = "stream.Update" THEN "UpdateStream"
                                                        ELSE "UpdateConsumer"
          /\ SentIdentity

IdentityKeptWitness ==
    /\ pc = "done"
    /\ handler = "consumer.Update"
    /\ req.plan[1].name = req.state[1].name
    /\ req.plan[1].stream_name = "events"
    /\ req.state[1].stream_name = "orders"
    /\ validateMode(req.plan[1]) # ""
    /\ calls = <<>>
    /\ HasDiag(resp, "error", "Cannot change consumer or stream name")
    /\ tfConsumer = req.state

(***************************************************************************)
(* Properties of the round trips (under SpecStreamRoundTrip and            *)
(* SpecConsumerRoundTrip).                                                 *)
(***************************************************************************)
StreamKept ==
    {"name", "subjects", "storage", "retention", "discard", "max_msgs", "max_bytes",
     "max_msgs_per_subject", "max_age", "duplicate_window", "allow_direct"}

\* No element of the list is null.
AllKnown(list) == \A i \in 1..Len(list.elems) : list.elems[i] # Null

\* C14: for every plan the schema's validators accept, when the server
\* returns the configuration it was sent, the state written equals the plan
\* in name, subjects (the same elements in the same order, an empty list
\* staying an empty list), storage, retention, discard, max_msgs, max_bytes,
\* max_msgs_per_subject, max_age, duplicate_window and allow_direct.
StreamRoundTrip ==
    rtSt.phase = "written" =>
        \A a \in StreamKept : rtSt.state[1][a] = rtSt.plan[a]

\* The same for the plans whose subjects are all known strings.
StreamRoundTripKnown ==
    (rtSt.phase = "written" /\ AllKnown(rtSt.plan.subjects)) =>
        \A a \in StreamKept : rtSt.state[1][a] = rtSt.plan[a]

ConsumerKept ==
    {"stream_name", "name", "mode", "deliver_policy", "ack_policy", "filter_subjects",
     "deliver_subject", "deliver_group"}

\* C15: for every plan the schema's validators and validateMode accept, when
\* the server returns the configuration it was sent with the stream's and
\* the consumer's name, the state written equals the plan in stream_name,
\* name, mode, deliver_policy, ack_policy, filter_subjects, deliver_subject
\* and deliver_group; the mode, recomputed as "push" exactly when
\* DeliverSubject is not empty, is the planned mode.
ConsumerRoundTrip ==
    rtSt.phase = "written" =>
        /\ validateMode(rtSt.plan) = ""
        /\ \A a \in ConsumerKept : rtSt.state[1][a] = rtSt.plan[a]

\* The same for the plans whose filter subjects are all known strings.
ConsumerRoundTripKnown ==
    (rtSt.phase = "written" /\ AllKnown(rtSt.plan.filter_subjects)) =>
        /\ validateMode(rtSt.plan) = ""
        /\ \A a \in ConsumerKept : rtSt.state[1][a] = rtSt.plan[a]

\* The mode alone, whatever the filter subjects are.
ConsumerModeKept ==
    rtSt.phase = "written" =>
        /\ rtSt.state[1].mode = rtSt.plan.mode
        /\ rtSt.state[1].mode = "push" <=> rtSt.cfg[1].DeliverSubject # ""

====
